---- MODULE Spec2Model ----
(***************************************************************************)
(* Kunda-Zip (src/src/c/kunda_zip.c): the archive creation pipeline        *)
(* (scan, path-prefix analysis, container serialization, LZMA preset       *)
(* resolution, checksum, header write) and the extraction pipeline         *)
(* (header parse, decompression, container parse, materialization).        *)
(*                                                                         *)
(* Strings (paths, prefixes, preset names) are sequences of character      *)
(* codes; buffers are sequences of chunks (literal bytes, or a run of one  *)
(* repeated byte whose length may exceed 32 bits).  Values of type size_t  *)
(* and uint32_t are kept as two 16-bit halves [hi, lo] (value = hi * 2^16  *)
(* + lo), so that the 32-bit truncations of the code are exact.            *)
(***************************************************************************)
EXTENDS Integers, Sequences, FiniteSets, TLC

(* ---------------------------------------------------------------------- *)
(* Program constants                                                       *)
(* ---------------------------------------------------------------------- *)
KUNDA_MAGIC == <<75, 85, 78, 68, 65, 0, 0, 0>>
KUNDA_VERSION == 2
COMP_LZMA_ULTRA == 3
FLAG_ENCRYPTED == 1
FLAG_CHECKSUMMED == 2
FLAG_PATH_COMPRESSED == 4
MAX_PATH_LEN == 4096
MAX_PREFIXES == 1000
SLASH == 47
DOLLAR == 36
DUP_MARKER == [hi |-> 65535, lo |-> 65535]

(* ---------------------------------------------------------------------- *)
(* Bounds of the model                                                     *)
(* ---------------------------------------------------------------------- *)
MaxFiles == 4

\* directory entries that cannot be read during one scan
MaxSkipped == 1

(* ---------------------------------------------------------------------- *)
(* size_t / uint32_t arithmetic on [hi, lo] halves                         *)
(* ---------------------------------------------------------------------- *)
B16 == 256 * 256

W(n) == [hi |-> n \div B16, lo |-> n % B16]

WAdd(a, b) ==
  LET l == a.lo + b.lo
  IN  [hi |-> a.hi + b.hi + (l \div B16), lo |-> l % B16]

WLeq(a, b) == a.hi < b.hi \/ (a.hi = b.hi /\ a.lo <= b.lo)

WLess(a, b) == a.hi < b.hi \/ (a.hi = b.hi /\ a.lo < b.lo)

\* the implicit conversion of a size_t argument to a uint32_t parameter
to_uint32(a) == [hi |-> a.hi % B16, lo |-> a.lo]

\* the implicit conversion of a size_t argument to a uint16_t parameter
to_uint16(a) == a.lo

(* ---------------------------------------------------------------------- *)
(* Big-endian integer codec                                                *)
(* ---------------------------------------------------------------------- *)
write_uint16_be(val) == << (val \div 256) % 256, val % 256 >>

write_uint32_be(val) ==
  << (val.hi \div 256) % 256, val.hi % 256,
     (val.lo \div 256) % 256, val.lo % 256 >>

read_uint16_be(buf) == buf[1] * 256 + buf[2]

read_uint32_be(buf) ==
  [hi |-> buf[1] * 256 + buf[2], lo |-> buf[3] * 256 + buf[4]]

(* ---------------------------------------------------------------------- *)
(* Buffers: sequences of chunks; adjacent literal chunks are merged, so    *)
(* that equal byte strings over the inputs of the model are equal values.  *)
(* ---------------------------------------------------------------------- *)
Lit(s) == IF s = <<>> THEN <<>> ELSE << [lit |-> s] >>

Run(n, b) == << [run |-> n, byte |-> b] >>

IsLit(c) == "lit" \in DOMAIN c

BufCat(a, b) ==
  IF a = <<>> THEN b
  ELSE IF b = <<>> THEN a
  ELSE IF IsLit(a[Len(a)]) /\ IsLit(b[1])
       THEN SubSeq(a, 1, Len(a) - 1)
              \o << [lit |-> a[Len(a)].lit \o b[1].lit] >>
              \o Tail(b)
       ELSE a \o b

RECURSIVE BufLen(_)
BufLen(buf) ==
  IF buf = <<>> THEN W(0)
  ELSE WAdd(IF IsLit(buf[1]) THEN W(Len(buf[1].lit)) ELSE buf[1].run,
            BufLen(Tail(buf)))

AllLit(buf) == \A i \in 1..Len(buf) : IsLit(buf[i])

\* the bytes of a buffer that holds literal chunks only
Explicit(buf) == IF buf = <<>> THEN <<>> ELSE buf[1].lit

(* ---------------------------------------------------------------------- *)
(* C string helpers                                                        *)
(* ---------------------------------------------------------------------- *)
Take(s, n) == SubSeq(s, 1, IF n < Len(s) THEN n ELSE Len(s))

Drop(s, n) == SubSeq(s, n + 1, Len(s))

\* strncmp(s, t, n) == 0 for strings without NUL
StrncmpEq(s, t, n) == Take(s, n) = Take(t, n)

\* index of the first c in s at or after position from (1-based), 0 if none
RECURSIVE strchr(_, _, _)
strchr(s, from, c) ==
  IF from > Len(s) THEN 0
  ELSE IF s[from] = c THEN from
  ELSE strchr(s, from + 1, c)

\* the part of s after its last '/', or s itself (strrchr, lines 481-486)
RECURSIVE Basename(_)
Basename(s) ==
  IF strchr(s, 1, SLASH) = 0 THEN s
  ELSE Basename(Drop(s, strchr(s, 1, SLASH)))

\* atoi: optional white space, optional sign, then decimal digits
IsSpace(c) == c = 32 \/ (c >= 9 /\ c <= 13)

IsDigit(c) == c >= 48 /\ c <= 57

RECURSIVE AtoiDigits(_, _)
AtoiDigits(s, acc) ==
  IF s = <<>> \/ ~IsDigit(s[1]) THEN acc
  ELSE AtoiDigits(Tail(s), acc * 10 + (s[1] - 48))

RECURSIVE atoi(_)
atoi(s) ==
  IF s = <<>> THEN 0
  ELSE IF IsSpace(s[1]) THEN atoi(Tail(s))
  ELSE IF s[1] = 45 THEN 0 - AtoiDigits(Tail(s), 0)
  ELSE IF s[1] = 43 THEN AtoiDigits(Tail(s), 0)
  ELSE AtoiDigits(s, 0)

(* ---------------------------------------------------------------------- *)
(* Inputs of the model                                                     *)
(* ---------------------------------------------------------------------- *)
\* a file of 0xFFFFFFFF zero bytes
HugeContent == Run([hi |-> 65535, lo |-> 65535], 0)

\* files that may exist under the input directory: relative path, content
FilePool ==
  { [path |-> <<97, 47, 98, 47, 99, 47, 102>>, content |-> Lit(<<120>>)], \* a/b/c/f "x"
    [path |-> <<97, 47, 98, 47, 99, 47, 103>>, content |-> << >>],        \* a/b/c/g ""
    [path |-> <<97, 47, 98, 47, 99, 47, 104>>, content |-> Lit(<<120>>)], \* a/b/c/h "x"
    [path |-> <<97, 47, 98, 47, 107>>,         content |-> Lit(<<121>>)], \* a/b/k   "y"
    [path |-> <<36, 48, 36, 102>>,             content |-> Lit(<<122>>)], \* $0$f    "z"
    [path |-> <<66>>,                          content |-> HugeContent] } \* B

s_ultra == <<117, 108, 116, 114, 97>>
s_ultra_dash == <<117, 108, 116, 114, 97, 45>>
s_max == <<109, 97, 120>>
s_balanced == <<98, 97, 108, 97, 110, 99, 101, 100>>
s_fast == <<102, 97, 115, 116>>

PresetPool ==
  { s_ultra,
    s_ultra_dash \o <<54, 52>>,            \* ultra-64
    s_ultra_dash \o <<50, 48, 52, 56>>,    \* ultra-2048
    s_ultra_dash \o <<52, 48, 57, 54>>,    \* ultra-4096
    s_max, s_balanced, s_fast,
    s_ultra \o s_fast,                     \* ultrafast
    <<122, 105, 112>> }                    \* zip

\* sizes the encoder may report for its output stream (strm.total_out)
XzSizes == {40, 300}

(* ---------------------------------------------------------------------- *)
(* State                                                                   *)
(* ---------------------------------------------------------------------- *)
VARIABLES
  cpc,             \* create_archive: the phase about to run
  cstatus,         \* create_archive: "running", or the outcome "0", "-1", "crash"
  tree,            \* the regular files of the input, as (relative path, content)
  files,           \* archive->files[0 .. count-1]
  prefixes,        \* archive->prefixes[0 .. prefix_count-1]
  ci,              \* compress_paths: index of the next path of the counting pass
  total_size,      \* create_archive: total_size
  binary_capacity, \* create_archive: binary_capacity
  binary_data,     \* create_archive: binary_data[0 .. offset-1]
  heap_overflow,   \* a write past binary_data + binary_capacity happened
  preset,          \* create_archive: the preset parameter (<< >> before it is used)
  lz,              \* compress_lzma_ultra: preset_level, dict_size, encoder variant
  compressed,      \* create_archive: compressed_data / compressed_size
  checksum,        \* create_archive: the checksum parameter
  disk,            \* the archive file on disk: << >> when absent, else << file >>
  skipped          \* scan_directory: number of directory entries passed over

cvars == << cpc, cstatus, tree, files, prefixes, ci, total_size,
            binary_capacity, binary_data, heap_overflow, preset, lz,
            compressed, checksum, disk, skipped >>

VARIABLES
  epc,           \* extract_archive: the phase about to run
  estatus,       \* extract_archive: "running", or the outcome "0", "-1", "crash"
  eerr,          \* the failure extract_archive reported on stderr, "" if none
  xin,           \* the arguments of the run: the archive file, with what its
                 \* producer put in it, and output_directory
  hdr,           \* flags, original_size, compressed_size, payload offset
  decompressed,  \* the decompressed container
  offset,        \* the read cursor into decompressed
  xprefixes,     \* prefixes[0 .. num_prefixes-1]
  num_files,     \* num_files
  fi,            \* number of file records parsed so far
  out_dir,       \* whether mkdir(output_directory) was called
  xdirs,         \* the dir_path values given to mkdir at line 840
  extracted,     \* the file records the loop has gone through that are no
                 \* duplicates, in order: expanded path, content, and the
                 \* path of the file fopen created for it (<< >> if none)
  oob            \* a read outside a buffer happened

evars == << epc, estatus, eerr, xin, hdr, decompressed, offset, xprefixes,
            num_files, fi, out_dir, xdirs, extracted, oob >>

vars == << cvars, evars >>

NoLz == [preset_level |-> 0, dict_size |-> W(0), custom |-> FALSE,
         trap |-> FALSE]

NoPayload == [plain |-> <<>>, size |-> 0, ok |-> FALSE]

(* ---------------------------------------------------------------------- *)
(* archive_add_file                                                        *)
(* ---------------------------------------------------------------------- *)
FileEntry(path, content, size) ==
  [path |-> Take(path, MAX_PATH_LEN - 1), content |-> content, size |-> size,
   is_duplicate |-> FALSE, duplicate_of |-> <<>>]

archive_add_file(fs, path, content, size) ==
  Append(fs, FileEntry(path, content, size))

(* ---------------------------------------------------------------------- *)
(* compress_paths                                                          *)
(* ---------------------------------------------------------------------- *)
\* index of the first entry of table at or after j whose prefix is p, 0 when
\* there is none (lines 255-261)
FindPrefix(table, p, j) ==
  LET found == { k \in j..Len(table) : table[k].prefix = p }
  IN  IF found = {} THEN 0
      ELSE CHOOSE k \in found : \A l \in found : k <= l

\* find or add one prefix, leaving the count of a prefix found as it is
CountPrefixNoCount(table, p) ==
  LET found == FindPrefix(table, p, 1)
  IN  IF found > 0 \/ Len(table) >= MAX_PREFIXES
      THEN table
      ELSE Append(table, [prefix |-> p, count |-> 1])

\* find or add one prefix (lines 254-269)
CountPrefix(table, p) ==
  LET found == FindPrefix(table, p, 1)
  IN  IF found > 0
      THEN [table EXCEPT ![found].count = @ + 1]
      ELSE IF Len(table) < MAX_PREFIXES
           THEN Append(table, [prefix |-> p, count |-> 1])
           ELSE table

\* every directory prefix of one path, from the '/' found at or after position from
RECURSIVE CountPrefixes(_, _, _)
CountPrefixes(table, path, from) ==
  LET slash == strchr(path, from, SLASH)
  IN  IF slash = 0 THEN table
      ELSE CountPrefixes(CountPrefix(table, Take(path, slash)), path, slash + 1)

\* minimum number of uses for a prefix to be kept (line 278)
MinPrefixCount == 3

FilterPrefixes(table) == SelectSeq(table, LAMBDA e : e.count >= MinPrefixCount)

Swap(p, i, j) == [p EXCEPT ![i] = p[j], ![j] = p[i]]

\* the comparison of the sort with its operands exchanged
SortBeforeExchanged(a, b) == Len(b.prefix) > Len(a.prefix)

\* the comparison of the sort (line 290)
SortBefore(a, b) == Len(a.prefix) > Len(b.prefix)

RECURSIVE SortInner(_, _, _)
SortInner(p, i, j) ==
  IF j > Len(p) THEN p
  ELSE SortInner(IF SortBefore(p[j], p[i]) THEN Swap(p, i, j) ELSE p, i, j + 1)

RECURSIVE SortOuter(_, _)
SortOuter(p, i) ==
  IF i > Len(p) THEN p
  ELSE SortOuter(SortInner(p, i, i + 1), i + 1)

SortPrefixes(table) == SortOuter(table, 1)

(* ---------------------------------------------------------------------- *)
(* create_archive: serialization of the container (lines 545-586)          *)
(* ---------------------------------------------------------------------- *)
SerializePrefix(e) ==
  write_uint16_be(Len(e.prefix) % B16) \o e.prefix

RECURSIVE SerializePrefixes(_)
SerializePrefixes(table) ==
  IF table = <<>> THEN <<>>
  ELSE SerializePrefix(table[1]) \o SerializePrefixes(Tail(table))

\* the length field written for a record that is not a duplicate (line 581)
ContentLenField(file) == write_uint32_be(to_uint32(file.size))

SerializeFile(file) ==
  BufCat(Lit(write_uint16_be(Len(file.path) % B16) \o file.path),
         IF file.is_duplicate
         THEN Lit(write_uint32_be(DUP_MARKER)
                    \o write_uint16_be(Len(file.duplicate_of) % B16)
                    \o file.duplicate_of)
         ELSE BufCat(Lit(ContentLenField(file)), file.content))

RECURSIVE SerializeFiles(_)
SerializeFiles(fs) ==
  IF fs = <<>> THEN <<>>
  ELSE BufCat(SerializeFile(fs[1]), SerializeFiles(Tail(fs)))

SerializeContainer(table, fs) ==
  BufCat(Lit(write_uint16_be(Len(table) % B16) \o SerializePrefixes(table)
               \o write_uint32_be(to_uint32(W(Len(fs))))),
         SerializeFiles(fs))

RECURSIVE SumSizes(_)
SumSizes(fs) ==
  IF fs = <<>> THEN W(0) ELSE WAdd(fs[1].size, SumSizes(Tail(fs)))

\* bytes reserved per file on top of its content (line 538)
PerFileSlack == 1024

Capacity(total, count) == WAdd(total, W(count * PerFileSlack))

(* ---------------------------------------------------------------------- *)
(* get_optimal_dict_size, compress_lzma_ultra                              *)
(* ---------------------------------------------------------------------- *)
MiB == 1024 * 1024

RECURSIVE RoundUpPow2(_, _)
RoundUpPow2(rounded, dict_size) ==
  IF rounded < dict_size THEN RoundUpPow2(rounded * 2, dict_size) ELSE rounded

get_optimal_dict_size ==
  LET dict_size == 256 * MiB
      up        == RoundUpPow2(1, dict_size)
      rounded   == IF up > dict_size THEN up \div 2 ELSE up
      low       == IF rounded < 64 * MiB THEN 64 * MiB ELSE rounded
  IN  IF low > 1536 * MiB THEN 1536 * MiB ELSE low

INT_MAX == 2147483647

\* atoi(preset + 6) * 1024 * 1024, computed in int and stored in a uint32_t.
\* The product overflows int when n >= 2048 or n < -2048: the store then
\* receives the wrapped product, or the run traps (trap |-> TRUE).
MiBTimes(n) ==
  LET wrapped == [hi |-> (n * 16) % B16, lo |-> 0]
  IN  IF n >= 0 - (INT_MAX \div MiB) - 1 /\ n <= INT_MAX \div MiB
      THEN {[dict_size |-> wrapped, trap |-> FALSE]}
      ELSE {[dict_size |-> wrapped, trap |-> FALSE],
            [dict_size |-> W(0), trap |-> TRUE]}

\* the encoder variant chosen at line 375
UsesFilterChain(p) == StrncmpEq(p, s_ultra, 5)

Resolved(p, level, d, trap) ==
  [preset_level |-> level, dict_size |-> d, custom |-> UsesFilterChain(p),
   trap |-> trap]

\* the values of preset_level and dict_size after lines 333-352
ResolvePreset(p) ==
  IF p = s_ultra
  THEN {Resolved(p, 9, W(get_optimal_dict_size), FALSE)}
  ELSE IF StrncmpEq(p, s_ultra_dash, 6)
  THEN {Resolved(p, 9, m.dict_size, m.trap) : m \in MiBTimes(atoi(Drop(p, 6)))}
  ELSE IF p = s_max
  THEN {Resolved(p, 9, W(256 * MiB), FALSE)}
  ELSE IF p = s_balanced
  THEN {Resolved(p, 6, W(128 * MiB), FALSE)}
  ELSE {Resolved(p, 3, W(64 * MiB), FALSE)}

\* lzma_stream_encoder accepts an LZMA2 dictionary of 4 KiB .. 1536 MiB
LzmaDictOk(d) == WLeq(W(4096), d) /\ WLeq(d, W(1536 * MiB))

\* whether the encoder of lines 374-379 can be initialised
EncoderInitOk(l) == l.custom => LzmaDictOk(l.dict_size)

\* SHA256 of the compressed payload: collision-free on the payloads of the model
SHA256(payload) == [sha |-> payload]

HeaderBytes(flags, original_size, compressed_size) ==
  KUNDA_MAGIC \o << KUNDA_VERSION, COMP_LZMA_ULTRA, flags >>
    \o write_uint32_be(to_uint32(original_size))
    \o write_uint32_be(to_uint32(compressed_size))

\* the flags byte of lines 611-618
FlagsByte(cs) == FLAG_PATH_COMPRESSED + (IF cs THEN FLAG_CHECKSUMMED ELSE 0)

ArchiveFile(cs, data, payload) ==
  [hdr |-> HeaderBytes(FlagsByte(cs), BufLen(data), W(payload.size)),
   digest |-> IF cs THEN << SHA256(payload) >> ELSE << >>,
   payload |-> payload]

(* ---------------------------------------------------------------------- *)
(* create_archive, one action per phase                                    *)
(* ---------------------------------------------------------------------- *)
\* a failure that starts the run again
CreateFailRetry ==
  /\ cpc' = "start"
  /\ cstatus' = "running"

\* free what was allocated and return -1
CreateFail ==
  /\ cpc' = "failed"
  /\ cstatus' = "-1"

\* lines 449-453, 459-464, 470-475, 500-508: the input cannot be accessed,
\* opened or read into memory
CreateInputFail ==
  /\ epc = "idle"
  /\ cpc = "start"
  /\ CreateFail
  /\ UNCHANGED << tree, files, prefixes, ci, total_size, binary_capacity,
                  binary_data, heap_overflow, preset, lz, compressed, checksum, disk,
                  skipped >>
  /\ UNCHANGED evars

\* lines 455-496: the input is one regular file, stored under its file name
CreateSingleFile ==
  /\ epc = "idle"
  /\ cpc = "start"
  /\ \E f \in FilePool :
       /\ tree' = {[path |-> Basename(f.path), content |-> f.content]}
       /\ files' = archive_add_file(files, Basename(f.path), f.content,
                                    BufLen(f.content))
  /\ cpc' = "stats"
  /\ UNCHANGED << cstatus, prefixes, ci, total_size, binary_capacity,
                  binary_data, heap_overflow, preset, lz, compressed, checksum, disk,
                  skipped >>
  /\ UNCHANGED evars

\* line 500 with line 178: the input is a directory that can be opened
ScanStart ==
  /\ epc = "idle"
  /\ cpc = "start"
  /\ cpc' = "scan"
  /\ UNCHANGED << cstatus, tree, files, prefixes, ci, total_size,
                  binary_capacity, binary_data, heap_overflow, preset, lz, compressed,
                  checksum, disk,
                  skipped >>
  /\ UNCHANGED evars

\* lines 185-231: readdir yields one more regular file, which is read and added
ScanFile ==
  /\ cpc = "scan"
  /\ Len(files) < MaxFiles
  /\ \E f \in FilePool :
       /\ \A g \in tree : g.path # f.path
       /\ tree' = tree \cup {f}
       /\ files' = archive_add_file(files, f.path, f.content, BufLen(f.content))
  /\ UNCHANGED << cpc, cstatus, prefixes, ci, total_size, binary_capacity,
                  binary_data, heap_overflow, preset, lz, compressed, checksum, disk,
                  skipped >>
  /\ UNCHANGED evars

\* lines 194-195, 199, 203, 210-213: readdir yields an entry that stat or
\* fopen or malloc fails on, or a subdirectory that cannot be opened; the
\* loop goes on to the next entry
ScanSkip ==
  /\ cpc = "scan"
  /\ skipped < MaxSkipped
  /\ skipped' = skipped + 1
  /\ UNCHANGED << cpc, cstatus, tree, files, prefixes, ci, total_size,
                  binary_capacity, binary_data, heap_overflow, preset, lz,
                  compressed, checksum, disk >>
  /\ UNCHANGED evars

\* lines 234-235: readdir is exhausted
ScanDone ==
  /\ cpc = "scan"
  /\ cpc' = "stats"
  /\ UNCHANGED << cstatus, tree, files, prefixes, ci, total_size,
                  binary_capacity, binary_data, heap_overflow, preset, lz, compressed,
                  checksum, disk,
                  skipped >>
  /\ UNCHANGED evars

\* lines 513-524: total_size
Stats ==
  /\ cpc = "stats"
  /\ total_size' = SumSizes(files)
  /\ cpc' = "paths"
  /\ UNCHANGED << cstatus, tree, files, prefixes, ci, binary_capacity,
                  binary_data, heap_overflow, preset, lz, compressed, checksum, disk,
                  skipped >>
  /\ UNCHANGED evars

\* line 240: compress_paths returns at once for at most one file
CompressPathsSkip ==
  /\ cpc = "paths"
  /\ Len(files) <= 1
  /\ cpc' = "serialize"
  /\ UNCHANGED << cstatus, tree, files, prefixes, ci, total_size,
                  binary_capacity, binary_data, heap_overflow, preset, lz, compressed,
                  checksum, disk,
                  skipped >>
  /\ UNCHANGED evars

\* lines 243-273: one iteration of the counting pass
CountPath ==
  /\ cpc = "paths"
  /\ Len(files) > 1
  /\ ci <= Len(files)
  /\ prefixes' = CountPrefixes(prefixes, files[ci].path, 1)
  /\ ci' = ci + 1
  /\ UNCHANGED << cpc, cstatus, tree, files, total_size, binary_capacity,
                  binary_data, heap_overflow, preset, lz, compressed, checksum, disk,
                  skipped >>
  /\ UNCHANGED evars

\* lines 275-298: filter, then sort
FilterSort ==
  /\ cpc = "paths"
  /\ Len(files) > 1
  /\ ci > Len(files)
  /\ prefixes' = SortPrefixes(FilterPrefixes(prefixes))
  /\ cpc' = "serialize"
  /\ UNCHANGED << cstatus, tree, files, ci, total_size, binary_capacity,
                  binary_data, heap_overflow, preset, lz, compressed, checksum, disk,
                  skipped >>
  /\ UNCHANGED evars

\* what malloc(binary_capacity) and the writes of lines 545-586 can do:
\* malloc(0) may return NULL; a write past the block is undefined
SerializeOutcomes(cap, needed) ==
  IF WLeq(needed, cap) THEN {"ok"}
  ELSE IF cap = W(0) THEN {"null", "overflow", "crash"}
  ELSE {"overflow", "crash"}

\* lines 538-588
Serialize ==
  /\ cpc = "serialize"
  /\ LET cap  == Capacity(total_size, Len(files))
         data == SerializeContainer(prefixes, files)
     IN  \E o \in SerializeOutcomes(cap, BufLen(data)) :
           /\ binary_capacity' = cap
           /\ heap_overflow' = (o \in {"overflow", "crash"})
           /\ binary_data' = IF o = "null" THEN << >> ELSE data
           /\ cpc' = CASE o = "null" -> "failed"
                       [] o = "crash" -> "crashed"
                       [] OTHER -> "compress"
           /\ cstatus' = CASE o = "null" -> "-1"
                           [] o = "crash" -> "crash"
                           [] OTHER -> cstatus
  /\ UNCHANGED << tree, files, prefixes, ci, total_size, preset, lz,
                  compressed, checksum, disk,
                  skipped >>
  /\ UNCHANGED evars

\* lines 333-352: the caller's preset is resolved
CompressResolve ==
  /\ cpc = "compress"
  /\ \E p \in PresetPool :
       /\ preset' = p
       /\ lz' \in ResolvePreset(p)
  /\ cpc' = "encode"
  /\ UNCHANGED << cstatus, tree, files, prefixes, ci, total_size,
                  binary_capacity, binary_data, heap_overflow, compressed,
                  checksum, disk,
                  skipped >>
  /\ UNCHANGED evars

\* lines 358-411: the encoder is initialised and run; it may also fail for
\* reasons of its own (memory)
CompressEncode ==
  /\ cpc = "encode"
  /\ \/ /\ ~lz.trap
        /\ EncoderInitOk(lz)
        /\ \E n \in XzSizes :
             compressed' = [plain |-> binary_data, size |-> n, ok |-> TRUE]
        /\ cpc' = "checksum"
        /\ UNCHANGED cstatus
     \/ /\ ~lz.trap
        /\ CreateFail
        /\ UNCHANGED compressed
     \/ /\ lz.trap
        /\ cpc' = "crashed"
        /\ cstatus' = "crash"
        /\ UNCHANGED compressed
  /\ lz' = NoLz
  /\ UNCHANGED << tree, files, prefixes, ci, total_size, binary_capacity,
                  binary_data, heap_overflow, preset, checksum, disk,
                  skipped >>
  /\ UNCHANGED evars

\* lines 611-618
Checksum ==
  /\ cpc = "checksum"
  /\ checksum' \in BOOLEAN
  /\ cpc' = "write"
  /\ UNCHANGED << cstatus, tree, files, prefixes, ci, total_size,
                  binary_capacity, binary_data, heap_overflow, preset, lz, compressed,
                  disk,
                  skipped >>
  /\ UNCHANGED evars

\* lines 623-681
WriteArchive ==
  /\ cpc = "write"
  /\ disk' = << ArchiveFile(checksum, binary_data, compressed) >>
  /\ cpc' = "done"
  /\ cstatus' = "0"
  /\ UNCHANGED << tree, files, prefixes, ci, total_size, binary_capacity,
                  binary_data, heap_overflow, preset, lz, compressed, checksum,
                  skipped >>
  /\ UNCHANGED evars

\* lines 623-630: the output file cannot be created
WriteOpenFail ==
  /\ cpc = "write"
  /\ CreateFail
  /\ UNCHANGED << tree, files, prefixes, ci, total_size, binary_capacity,
                  binary_data, heap_overflow, preset, lz, compressed, checksum, disk,
                  skipped >>
  /\ UNCHANGED evars

CreateInit ==
  /\ cpc = "start"
  /\ cstatus = "running"
  /\ tree = {}
  /\ files = << >>
  /\ prefixes = << >>
  /\ ci = 1
  /\ total_size = W(0)
  /\ binary_capacity = W(0)
  /\ binary_data = << >>
  /\ heap_overflow = FALSE
  /\ preset = << >>
  /\ lz = NoLz
  /\ compressed = NoPayload
  /\ checksum = FALSE
  /\ disk = << >>
  /\ skipped = 0

CreateNext ==
  \/ CreateInputFail
  \/ CreateSingleFile
  \/ ScanStart
  \/ ScanFile
  \/ ScanSkip
  \/ ScanDone
  \/ Stats
  \/ CompressPathsSkip
  \/ CountPath
  \/ FilterSort
  \/ Serialize
  \/ CompressResolve
  \/ CompressEncode
  \/ Checksum
  \/ WriteArchive
  \/ WriteOpenFail


(* ---------------------------------------------------------------------- *)
(* Archive files that extract_archive may be given besides the one written *)
(* by create_archive: containers in the layout of lines 545-586 built by   *)
(* another producer, whole or cut short, with or without a digest          *)
(* ---------------------------------------------------------------------- *)
MaxCraftRecords == 2

DupEntry(path, of) ==
  [path |-> path, content |-> << >>, size |-> W(0),
   is_duplicate |-> TRUE, duplicate_of |-> of]

CraftPool ==
  { FileEntry(<<102>>, Lit(<<120>>), W(1)),                 \* f      "x"
    FileEntry(<<36, 48, 36, 102>>, Lit(<<122>>), W(1)),     \* $0$f   "z"
    FileEntry(<<36, 49, 36, 102>>, Lit(<<122>>), W(1)),     \* $1$f   "z"
    FileEntry(<<36, 45, 49, 36, 102>>, Lit(<<122>>), W(1)), \* $-1$f  "z"
    DupEntry(<<103>>, <<102>>) }                            \* g, duplicate of f

CraftTables == { << >>, << [prefix |-> <<97, 47>>, count |-> 3] >> }

CraftLists ==
  UNION { [1..n -> CraftPool] : n \in 0..MaxCraftRecords }

CraftContainers ==
  { [table |-> t, recs |-> r, data |-> Explicit(SerializeContainer(t, r))]
      : t \in CraftTables, r \in CraftLists }

Stream(bytes) == [plain |-> Lit(bytes), size |-> 40, ok |-> TRUE]

\* a container cut after its first k bytes, without digest
CutArchive(c, k) ==
  [file |-> ArchiveFile(FALSE, Lit(Take(c.data, k)), Stream(Take(c.data, k))),
   table |-> c.table, recs |-> c.recs, cut |-> k, digest |-> "none"]

\* a whole container with a digest: of its payload ("good"), of another
\* payload ("stale"), or of its payload before one bit of it flipped ("flipped")
DigestArchive(c, d) ==
  [file |-> [hdr |-> HeaderBytes(FlagsByte(TRUE), W(Len(c.data)), W(40)),
             digest |-> << SHA256(IF d = "stale" THEN Stream(<< >>)
                                               ELSE Stream(c.data)) >>,
             payload |-> [Stream(c.data) EXCEPT !.ok = (d # "flipped")]],
   table |-> c.table, recs |-> c.recs, cut |-> Len(c.data), digest |-> d]

\* a file that does not start with the signature
NotAnArchive ==
  [file |-> [hdr |-> [i \in 1..19 |-> 0], digest |-> << >>, payload |-> Stream(<< >>)],
   table |-> << >>, recs |-> << >>, cut |-> 0, digest |-> "foreign"]

\* an archive file of one record that ends inside its header, after 10 bytes
ShortHeader ==
  [file |-> [hdr |-> Take(HeaderBytes(FlagsByte(FALSE), W(14), W(40)), 10),
             digest |-> << >>, payload |-> NoPayload],
   table |-> << >>, recs |-> << FileEntry(<<102>>, Lit(<<120>>), W(1)) >>,
   cut |-> 0, digest |-> "short header"]

\* an archive file of one record that ends after 20 of the 40 bytes its
\* header declares as compressed size
ShortPayload ==
  [file |-> [hdr |-> HeaderBytes(FlagsByte(FALSE), W(14), W(40)),
             digest |-> << >>,
             payload |-> [plain |-> << >>, size |-> 20, ok |-> FALSE]],
   table |-> << >>, recs |-> << FileEntry(<<102>>, Lit(<<120>>), W(1)) >>,
   cut |-> 0, digest |-> "short payload"]

CraftedArchives ==
  UNION { { CutArchive(c, k) : k \in 0..Len(c.data) } : c \in CraftContainers }
    \cup { DigestArchive(c, d) : c \in CraftContainers,
                                 d \in {"good", "stale", "flipped"} }
    \cup { NotAnArchive, ShortHeader, ShortPayload }

(* ---------------------------------------------------------------------- *)
(* extract_archive                                                         *)
(* ---------------------------------------------------------------------- *)

NoHdr == [flags |-> 0, original_size |-> W(0), compressed_size |-> W(0),
          payload_at |-> 0]

NoInput == [file |-> [hdr |-> << >>, digest |-> << >>, payload |-> NoPayload],
            table |-> << >>, recs |-> << >>, cut |-> 0, digest |-> "none",
            from |-> "none", output_directory |-> << >>]

\* the string a char buffer holds: its bytes up to the first NUL
CStr(s) == IF strchr(s, 1, 0) = 0 THEN s ELSE Take(s, strchr(s, 1, 0) - 1)

BitSet(flags, bit) == (flags \div bit) % 2 = 1

\* lines 709-732
ParseHeader(h) ==
  [flags |-> h[11],
   original_size |-> read_uint32_be(SubSeq(h, 12, 15)),
   compressed_size |-> read_uint32_be(SubSeq(h, 16, 19)),
   payload_at |-> 19 + (IF BitSet(h[11], FLAG_CHECKSUMMED) THEN 32 ELSE 0)]

\* the outcome of lzma_code at lines 752-765 on a payload: the stream must be
\* well formed, wholly inside avail_in, and its output must fit avail_out
DecodeOk(payload, h) ==
  /\ payload.ok
  /\ WLeq(W(payload.size), h.compressed_size)
  /\ WLeq(BufLen(payload.plain), h.original_size)

\* lines 773-785: the prefix table starting at offset 0.  Returns the parsed
\* strings and the cursor, or oob when a read would leave the buffer
RECURSIVE ParsePrefixEntries(_, _, _, _)
ParsePrefixEntries(buf, off, n, acc) ==
  IF n = 0 THEN [oob |-> FALSE, prefixes |-> acc, offset |-> off]
  ELSE IF off + 2 > Len(buf) THEN [oob |-> TRUE, prefixes |-> acc, offset |-> off]
  ELSE LET prefix_len == read_uint16_be(SubSeq(buf, off + 1, off + 2))
       IN  IF off + 2 + prefix_len > Len(buf)
           THEN [oob |-> TRUE, prefixes |-> acc, offset |-> off + 2]
           ELSE ParsePrefixEntries(buf, off + 2 + prefix_len, n - 1,
                  Append(acc, CStr(SubSeq(buf, off + 3, off + 2 + prefix_len))))

ParsePrefixTable(buf) ==
  IF 2 > Len(buf) THEN [oob |-> TRUE, prefixes |-> << >>, offset |-> 0]
  ELSE ParsePrefixEntries(buf, 2, read_uint16_be(SubSeq(buf, 1, 2)), << >>)

\* lines 805-817: the index a stored path refers to, -1 when it is used verbatim
IsReference(path) ==
  /\ path # << >>
  /\ path[1] = DOLLAR
  /\ strchr(path, 2, DOLLAR) # 0

PrefixIndex(path) == atoi(Drop(path, 1))

\* whether prefixes[prefix_idx] is an element of the table (line 811 does not ask)
IndexInTable(idx, table) == idx >= 0 /\ idx < Len(table)

ExpandPath(path, table) ==
  IF IsReference(path)
  THEN Take(table[PrefixIndex(path) + 1] \o Drop(path, strchr(path, 2, DOLLAR)),
            MAX_PATH_LEN - 1)
  ELSE path

\* output_directory as the caller gives it: the default of line 913 is a
\* plain name, the usage text of line 894 gives one with a trailing '/'
OutDirs == { <<111>>, <<111, SLASH>> }

\* line 829
FullPath(outdir, expanded) ==
  Take(outdir \o <<SLASH>> \o expanded, MAX_PATH_LEN - 1)

\* index of the last c in s, 0 if none
RECURSIVE strrchr(_, _, _)
strrchr(s, upto, c) ==
  IF upto = 0 THEN 0
  ELSE IF s[upto] = c THEN upto
  ELSE strrchr(s, upto - 1, c)

\* lines 832-834: full_path cut at its last '/'
DirPart(full) == Take(full, strrchr(full, Len(full), SLASH) - 1)

\* index of the first character of s at or after from that is not c, 0 if none
RECURSIVE SkipChar(_, _, _)
SkipChar(s, from, c) ==
  IF from > Len(s) THEN 0
  ELSE IF s[from] # c THEN from
  ELSE SkipChar(s, from + 1, c)

\* lines 837-843: the tokens strtok(.., "/") returns on s from position from
RECURSIVE Tokens(_, _)
Tokens(s, from) ==
  LET start == SkipChar(s, from, SLASH)
      stop  == strchr(s, start, SLASH)
  IN  IF start = 0 THEN << >>
      ELSE IF stop = 0 THEN << SubSeq(s, start, Len(s)) >>
      ELSE << SubSeq(s, start, stop - 1) >> \o Tokens(s, stop + 1)

\* lines 836-843: dir_path after the first k tokens have been appended
RECURSIVE DirPath(_, _)
DirPath(tokens, k) ==
  IF k = 1 THEN tokens[1]
  ELSE DirPath(tokens, k - 1) \o <<SLASH>> \o tokens[k]

\* the directories created at line 840 for full_path
ParentDirs(full) ==
  LET tokens == Tokens(DirPart(full), 1)
  IN  { DirPath(tokens, k) : k \in 1..Len(tokens) }

\* full_path as a string at line 847: strtok has written a NUL over the '/'
\* that ended its first token, and line 844 restores the last '/' only
FopenPath(full) ==
  LET dir   == DirPart(full)
      start == SkipChar(dir, 1, SLASH)
      stop  == IF start = 0 THEN 0 ELSE strchr(dir, start, SLASH)
  IN  IF stop = 0 THEN full ELSE Take(full, stop - 1)

\* fopen(.., "wb") at line 847 cannot open a directory
FopenOk(path, dirs) ==
  /\ path # << >>
  /\ path[Len(path)] # SLASH
  /\ path \notin dirs

\* lines 796-854: one file record at the cursor.  kind is "file" (fopen
\* succeeded), "skipped" (fopen failed), "dup" (duplicate record), or "oob" /
\* "smash" when the code reads outside decompressed or prefixes, or writes
\* past path[]
ParseRecord(buf, off, table, outdir, dirs) ==
  IF off + 2 > Len(buf) THEN [kind |-> "oob"]
  ELSE
  LET path_len == read_uint16_be(SubSeq(buf, off + 1, off + 2))
      at1      == off + 2 + path_len
  IN
  IF path_len >= MAX_PATH_LEN THEN [kind |-> "smash"]
  ELSE IF at1 > Len(buf) THEN [kind |-> "oob"]
  ELSE
  LET path == CStr(SubSeq(buf, off + 3, at1))
  IN
  IF IsReference(path) /\ ~IndexInTable(PrefixIndex(path), table)
  THEN [kind |-> "oob"]
  ELSE IF at1 + 4 > Len(buf) THEN [kind |-> "oob"]
  ELSE
  LET expanded    == ExpandPath(path, table)
      content_len == read_uint32_be(SubSeq(buf, at1 + 1, at1 + 4))
      at2         == at1 + 4
      full_path   == FullPath(outdir, expanded)
      inside      == ~WLess(W(Len(buf) - at2), content_len)
  IN
  IF content_len = DUP_MARKER
  THEN IF at2 + 2 > Len(buf) THEN [kind |-> "oob"]
       ELSE [kind |-> "dup", path |-> expanded,
             offset |-> at2 + 2 + read_uint16_be(SubSeq(buf, at2 + 1, at2 + 2))]
  ELSE IF ~FopenOk(FopenPath(full_path), dirs \cup ParentDirs(full_path))
  THEN \* nothing is read; a cursor behind the buffer is kept as Len(buf) + 1
       [kind |-> "skipped", path |-> expanded, full_path |-> full_path,
        content |-> IF inside THEN SubSeq(buf, at2 + 1, at2 + content_len.lo)
                    ELSE SubSeq(buf, at2 + 1, Len(buf)),
        offset |-> IF inside THEN at2 + content_len.lo ELSE Len(buf) + 1]
  ELSE IF ~inside THEN [kind |-> "oob"]
  ELSE [kind |-> "file", path |-> expanded, full_path |-> full_path,
        content |-> SubSeq(buf, at2 + 1, at2 + content_len.lo),
        offset |-> at2 + content_len.lo]

\* a read or write outside an object: the run may crash, or go on and return
Undefined ==
  /\ epc' = "ub"
  /\ oob' = TRUE
  /\ estatus' \in {"crash", "0"}

ExtractFail(msg) ==
  /\ epc' = "failed"
  /\ estatus' = "-1"
  /\ eerr' = msg

\* the archive files extract_archive is run on: the file create_archive wrote,
\* or, when create_archive has not been run, a file of another producer
Inputs ==
  IF cpc = "done"
  THEN {[file |-> disk[1], table |-> << >>, recs |-> << >>, cut |-> 0,
         digest |-> "none", from |-> "created", output_directory |-> d] :
           d \in OutDirs}
  ELSE IF cpc = "start"
  THEN {[file |-> a.file, table |-> a.table, recs |-> a.recs, cut |-> a.cut,
         digest |-> a.digest, from |-> "crafted", output_directory |-> d] :
           a \in CraftedArchives, d \in OutDirs}
  ELSE {}

\* lines 689-693: the archive cannot be opened
ExtractOpenFail ==
  /\ epc = "idle"
  /\ cpc \in {"start", "done"}
  /\ ExtractFail("Cannot open archive")
  /\ UNCHANGED << xin, hdr, decompressed, offset, xprefixes, num_files, fi,
                  out_dir, xdirs, extracted, oob >>
  /\ UNCHANGED cvars

\* the bytes of the header up to the payload, without the digest
HeaderLen == 19

\* a read of lzma_code or of the header parser behind the end of
\* archive_data: the run may crash, or fail on the bytes it finds there
ReadBehindArchive ==
  /\ epc' = "ub"
  /\ oob' = TRUE
  /\ estatus' \in {"crash", "-1"}

\* lines 695-728 on a file shorter than its header: memcmp and the reads of
\* the header fields leave archive_data
ExtractOpenShort ==
  /\ epc = "idle"
  /\ \E a \in Inputs :
       /\ Len(a.file.hdr) < HeaderLen
       /\ xin' = a
  /\ ReadBehindArchive
  /\ UNCHANGED << eerr, hdr, decompressed, offset, xprefixes, num_files, fi,
                  out_dir, xdirs, extracted >>
  /\ UNCHANGED cvars

\* lines 695-732: the file is read and its header parsed
ExtractOpen ==
  /\ epc = "idle"
  /\ \E a \in Inputs :
       /\ Len(a.file.hdr) >= HeaderLen
       /\ xin' = a
       /\ IF Take(a.file.hdr, 8) # KUNDA_MAGIC
          THEN /\ ExtractFail("Invalid Kunda archive")
               /\ UNCHANGED hdr
          ELSE /\ hdr' = ParseHeader(a.file.hdr)
               /\ epc' = "decompress"
               /\ UNCHANGED << estatus, eerr >>
  /\ UNCHANGED << decompressed, offset, xprefixes, num_files, fi, out_dir,
                  xdirs, extracted, oob >>
  /\ UNCHANGED cvars

\* lines 737-741: malloc(original_size) returns NULL, as malloc(0) may
DecompressNoBuffer ==
  /\ epc = "decompress"
  /\ hdr.original_size = W(0)
  /\ ExtractFail("")
  /\ UNCHANGED << xin, hdr, decompressed, offset, xprefixes, num_files, fi,
                  out_dir, xdirs, extracted, oob >>
  /\ UNCHANGED cvars

\* lines 752-757 on a file that ends before compressed_size bytes of
\* payload: lzma_code is given avail_in bytes that leave archive_data
DecompressShort ==
  /\ epc = "decompress"
  /\ hdr.original_size # W(0)
  /\ WLess(W(xin.file.payload.size), hdr.compressed_size)
  /\ ReadBehindArchive
  /\ UNCHANGED << eerr, xin, hdr, decompressed, offset, xprefixes, num_files,
                  fi, out_dir, xdirs, extracted >>
  /\ UNCHANGED cvars

\* lines 743-767
Decompress ==
  /\ epc = "decompress"
  /\ ~WLess(W(xin.file.payload.size), hdr.compressed_size)
  /\ IF DecodeOk(xin.file.payload, hdr)
     THEN /\ decompressed' = Explicit(xin.file.payload.plain)
          /\ epc' = "prefixes"
          /\ UNCHANGED << estatus, eerr >>
     ELSE /\ ExtractFail("Decompression failed")
          /\ UNCHANGED decompressed
  /\ UNCHANGED << xin, hdr, offset, xprefixes, num_files, fi, out_dir, xdirs,
                  extracted, oob >>
  /\ UNCHANGED cvars

\* lines 770-785
ParsePrefixes ==
  /\ epc = "prefixes"
  /\ LET r == ParsePrefixTable(decompressed)
     IN  IF r.oob
         THEN /\ Undefined
              /\ UNCHANGED << xprefixes, offset >>
         ELSE /\ xprefixes' = r.prefixes
              /\ offset' = r.offset
              /\ epc' = "count"
              /\ UNCHANGED << estatus, oob >>
  /\ UNCHANGED << eerr, xin, hdr, decompressed, num_files, fi, out_dir, xdirs,
                  extracted >>
  /\ UNCHANGED cvars

\* lines 787-794
ParseFileCount ==
  /\ epc = "count"
  /\ IF offset + 4 > Len(decompressed)
     THEN /\ Undefined
          /\ UNCHANGED << num_files, offset, out_dir >>
     ELSE /\ num_files' = read_uint32_be(SubSeq(decompressed, offset + 1, offset + 4))
          /\ offset' = offset + 4
          /\ out_dir' = TRUE
          /\ epc' = "files"
          /\ UNCHANGED << estatus, oob >>
  /\ UNCHANGED << eerr, xin, hdr, decompressed, xprefixes, fi, xdirs, extracted >>
  /\ UNCHANGED cvars

\* lines 796-855: one iteration of the loop over the file records
ParseFile ==
  /\ epc = "files"
  /\ WLess(W(fi), num_files)
  /\ LET r == ParseRecord(decompressed, offset, xprefixes,
                          xin.output_directory, xdirs)
     IN  IF r.kind \in {"oob", "smash"}
         THEN /\ Undefined
              /\ UNCHANGED << offset, fi, xdirs, extracted >>
         ELSE /\ offset' = r.offset
              /\ fi' = fi + 1
              /\ xdirs' = IF r.kind = "dup" THEN xdirs
                          ELSE xdirs \cup ParentDirs(r.full_path)
              /\ extracted' =
                   IF r.kind = "dup" THEN extracted
                   ELSE Append(extracted,
                               [path |-> r.path, content |-> r.content,
                                file |-> IF r.kind = "file"
                                         THEN FopenPath(r.full_path)
                                         ELSE << >>])
              /\ UNCHANGED << epc, estatus, oob >>
  /\ UNCHANGED << eerr, xin, hdr, decompressed, xprefixes, num_files, out_dir >>
  /\ UNCHANGED cvars

\* lines 857-867
ExtractDone ==
  /\ epc = "files"
  /\ ~WLess(W(fi), num_files)
  /\ epc' = "done"
  /\ estatus' = "0"
  /\ UNCHANGED << eerr, xin, hdr, decompressed, offset, xprefixes, num_files,
                  fi, out_dir, xdirs, extracted, oob >>
  /\ UNCHANGED cvars

ExtractInit ==
  /\ epc = "idle"
  /\ estatus = "running"
  /\ eerr = ""
  /\ xin = NoInput
  /\ hdr = NoHdr
  /\ decompressed = << >>
  /\ offset = 0
  /\ xprefixes = << >>
  /\ num_files = W(0)
  /\ fi = 0
  /\ out_dir = FALSE
  /\ xdirs = {}
  /\ extracted = << >>
  /\ oob = FALSE

ExtractNext ==
  \/ ExtractOpenFail
  \/ ExtractOpenShort
  \/ ExtractOpen
  \/ DecompressNoBuffer
  \/ DecompressShort
  \/ Decompress
  \/ ParsePrefixes
  \/ ParseFileCount
  \/ ParseFile
  \/ ExtractDone

(* ---------------------------------------------------------------------- *)
(* One run of create, then one run of extract on its output; or one run of *)
(* extract on a file of another producer                                   *)
(* ---------------------------------------------------------------------- *)
Init == CreateInit /\ ExtractInit

Next == CreateNext \/ ExtractNext

Spec == Init /\ [][Next]_vars

\* create_archive alone
SpecCreate == Init /\ [][CreateNext]_vars

(* ---------------------------------------------------------------------- *)
(* The counting pass of compress_paths near the capacity of the table: a   *)
(* directory of MAX_PREFIXES - 1 subdirectories aaa, aab, .. with one file *)
(* x each, a second file w in aaa, and a few more files; the run is taken  *)
(* up after the scan                                                       *)
(* ---------------------------------------------------------------------- *)
CapFill == MAX_PREFIXES - 1

\* most further files of the directory
MaxTail == 2

DirName(i) == << 97 + (i \div 100), 97 + ((i \div 10) % 10), 97 + (i % 10) >>

CapFiles ==
  [i \in 1..(CapFill + 1) |->
     IF i = 1
     THEN FileEntry(DirName(0) \o <<SLASH, 119>>, Lit(<<120>>), W(1))
     ELSE FileEntry(DirName(i - 2) \o <<SLASH, 120>>, Lit(<<120>>), W(1))]

TailPool ==
  { <<97, 97, 97, SLASH, 121>>,              \* aaa/y
    <<121, 121, SLASH, 120>>,                \* yy/x
    <<120, 120, SLASH, 113, SLASH, 120>> }   \* xx/q/x

TailLists ==
  UNION { { s \in [1..n -> TailPool] :
              \A i \in 1..n : \A j \in 1..n : s[i] = s[j] => i = j }
            : n \in 1..MaxTail }

CapInit ==
  /\ cpc = "paths"
  /\ cstatus = "running"
  /\ \E tail \in TailLists :
       files = CapFiles
                 \o [i \in 1..Len(tail) |-> FileEntry(tail[i], Lit(<<120>>), W(1))]
  /\ tree = { [path |-> files[i].path, content |-> files[i].content] :
                i \in 1..Len(files) }
  /\ prefixes = << >>
  /\ ci = 1
  /\ total_size = W(Len(files))
  /\ binary_capacity = W(0)
  /\ binary_data = << >>
  /\ heap_overflow = FALSE
  /\ preset = << >>
  /\ lz = NoLz
  /\ compressed = NoPayload
  /\ checksum = FALSE
  /\ disk = << >>
  /\ skipped = 0
  /\ ExtractInit

CapNext == CountPath \/ FilterSort

SpecCap == CapInit /\ [][CapNext]_vars

(* ---------------------------------------------------------------------- *)
(* Properties                                                              *)
(* ---------------------------------------------------------------------- *)
Terminated == epc \in {"done", "failed", "ub"}

FromCreate == xin.from = "created"

\* the container a crafted input was cut from
FullContainer == Explicit(SerializeContainer(xin.table, xin.recs))

WholeCrafted ==
  /\ xin.from = "crafted"
  /\ xin.digest \in {"none", "good"}
  /\ xin.cut = Len(FullContainer)

Truncated ==
  /\ xin.from = "crafted"
  /\ xin.digest = "none"
  /\ xin.cut < Len(FullContainer)

PrefixStrings == [i \in 1..Len(prefixes) |-> prefixes[i].prefix]

FileRecords ==
  [i \in 1..Len(files) |->
     [path |-> files[i].path, content |-> Explicit(files[i].content)]]

\* whether record i of extracted was written to its path under the output
\* directory
WrittenInPlace(i) ==
  extracted[i].file = FullPath(xin.output_directory, extracted[i].path)

\* the files under the output directory: the last write to a file stays
Materialized ==
  { [path |-> extracted[j].path, content |-> Lit(extracted[j].content)] :
      j \in { i \in 1..Len(extracted) :
                /\ WrittenInPlace(i)
                /\ \A k \in (i + 1)..Len(extracted) :
                      extracted[k].file # extracted[i].file } }

\* the file records the parsing loop has yielded
ParsedRecords ==
  [i \in 1..Len(extracted) |->
     [path |-> extracted[i].path, content |-> extracted[i].content]]

NamedPresets ==
  { s_ultra, s_ultra_dash \o <<54, 52>>, s_max, s_balanced, s_fast }

\* C1: container round trip.  Whenever the parsing loop of extract_archive
\* has run on the container create_archive serialized, it ran to its end and
\* yielded the prefixes of the table and the file records, in order, with
\* equal paths and equal contents.
C1_ContainerRoundTrip ==
  (FromCreate /\ epc \in {"done", "ub"}) =>
     /\ epc = "done"
     /\ xprefixes = PrefixStrings
     /\ ParsedRecords = FileRecords

\* C2: full pipeline round trip.  For a tree archived under one of the
\* presets ultra, ultra-64, max, balanced, fast, extract_archive on the file
\* written by create_archive ends with status 0 and the output directory
\* holds exactly the paths of the tree with identical contents.
C2_PipelineRoundTrip ==
  (FromCreate /\ preset \in NamedPresets /\ Terminated) =>
     /\ epc = "done"
     /\ estatus = "0"
     /\ Materialized = tree

\* C3: truncated-input safety.  On a container cut short at any byte offset
\* the parsing loop never reads at an index at or beyond the buffer length.
C3_TruncatedNoOutOfBounds == Truncated => ~oob

\* C4: digest integrity.  When the checksummed flag is set and the payload
\* is not the one the stored digest was computed over, extract_archive
\* creates no directory and no file, and ends with a failure status.
C4_DigestMismatchAborts ==
  (xin.digest \in {"stale", "flipped"}) =>
     /\ ~out_dir
     /\ xdirs = {}
     /\ extracted = << >>
     /\ (Terminated => estatus = "-1")

\* C5: encode overflow rejection.  An archive is written only if the
\* content length field of every record that is not a duplicate holds the
\* content length exactly and differs from the duplicate marker 0xFFFFFFFF.
C5_NoOverflowWritten ==
  (disk # << >>) =>
     \A i \in 1..Len(files) :
        ~files[i].is_duplicate =>
           /\ read_uint32_be(ContentLenField(files[i])) = files[i].size
           /\ files[i].size # DUP_MARKER

AfterCompressPaths == cpc \notin {"start", "scan", "stats", "paths"}

\* C6: prefix filtering invariant.  After compress_paths has returned,
\* every entry of the prefix table has a count of at least 3 and the
\* lengths of the prefixes do not increase along the table.
C6_PrefixTableFilteredSorted ==
  AfterCompressPaths =>
     /\ \A i \in 1..Len(prefixes) : prefixes[i].count >= 3
     /\ \A i \in 1..(Len(prefixes) - 1) :
           Len(prefixes[i].prefix) >= Len(prefixes[i + 1].prefix)

\* C6 witness: compress_paths has just returned a table of three prefixes of
\* different lengths, after dropping none or some of the counted ones
C6_Witness ==
  /\ cpc = "serialize"
  /\ Len(prefixes) = 3
  /\ Len(prefixes[1].prefix) > Len(prefixes[3].prefix)

\* a preset of the form ultra-<N>, N a decimal number
IsUltraN(p) ==
  /\ Len(p) > 6
  /\ Take(p, 6) = s_ultra_dash
  /\ \A i \in 7..Len(p) : IsDigit(p[i])

\* C7: encoder variant selection.  The filter-chain encoder is used exactly
\* when the preset is "ultra" or of the form "ultra-<N>".
C7_FilterChainOnlyForUltra ==
  (cpc = "encode") => (lz.custom <=> (preset = s_ultra \/ IsUltraN(preset)))

\* C8: preset level and dictionary resolution.  "ultra" gives level 9 and
\* 256 MiB, "ultra-<N>" level 9 and exactly N MiB (never wrapped, never 0)
\* for positive N, "max" 9 / 256 MiB, "balanced" 6 / 128 MiB, anything else
\* 3 / 64 MiB.
C8_LevelAndDictionary ==
  (cpc = "encode" /\ ~lz.trap) =>
     IF preset = s_ultra \/ preset = s_max
     THEN lz.preset_level = 9 /\ lz.dict_size = W(256 * MiB)
     ELSE IF IsUltraN(preset) /\ atoi(Drop(preset, 6)) > 0
     THEN /\ lz.preset_level = 9
          /\ lz.dict_size = [hi |-> 16 * atoi(Drop(preset, 6)), lo |-> 0]
          /\ lz.dict_size # W(0)
     ELSE IF IsUltraN(preset) THEN TRUE
     ELSE IF preset = s_balanced
     THEN lz.preset_level = 6 /\ lz.dict_size = W(128 * MiB)
     ELSE lz.preset_level = 3 /\ lz.dict_size = W(64 * MiB)

\* the stored path of the record at the cursor, when it lies in the buffer
HasPathAtCursor ==
  /\ offset + 2 <= Len(decompressed)
  /\ offset + 2 + read_uint16_be(SubSeq(decompressed, offset + 1, offset + 2))
        <= Len(decompressed)

PathAtCursor ==
  CStr(SubSeq(decompressed, offset + 3,
              offset + 2 + read_uint16_be(SubSeq(decompressed, offset + 1,
                                                 offset + 2))))

\* C9: path reference expansion.  A step of the parsing loop on a stored
\* path $<digits>$<suffix> whose index is negative or not below the prefix
\* count fails with CorruptArchive and does not index the prefix table.
C9_BadReferenceRejected ==
  [][ ( /\ epc = "files"
        /\ WLess(W(fi), num_files)
        /\ HasPathAtCursor
        /\ IsReference(PathAtCursor)
        /\ ~IndexInTable(PrefixIndex(PathAtCursor), xprefixes) )
      => (estatus' = "-1" /\ eerr' = "CorruptArchive" /\ ~oob') ]_vars

\* C10: duplicate record resolution.  After extraction of a whole container,
\* every duplicate record whose referenced record is in the container exists
\* as an output file holding a copy of the referenced record's content.
C10_DuplicatesMaterialized ==
  (WholeCrafted /\ epc = "done") =>
     \A i \in 1..Len(xin.recs) :
        \A j \in 1..Len(xin.recs) :
           ( /\ xin.recs[i].is_duplicate
             /\ ~xin.recs[j].is_duplicate
             /\ xin.recs[j].path = xin.recs[i].duplicate_of )
           => \E k \in 1..Len(extracted) :
                 /\ extracted[k].path = xin.recs[i].path
                 /\ extracted[k].content = Explicit(xin.recs[j].content)
                 /\ WrittenInPlace(k)

\* the record serialized for a zero-byte member: its path, then a length
\* field of 0, then nothing
EmptyRecord(file) ==
  Lit(write_uint16_be(Len(file.path) % B16) \o file.path \o <<0, 0, 0, 0>>)

\* C11: empty file handling.  Every zero-byte member is serialized with a
\* content length of 0 and no content bytes; once extract_archive has gone
\* through the archive written, the member is among the records parsed as no
\* duplicate, with zero content bytes, it exists as an empty file under the
\* output directory, and the cursor stands at the end of the last record.
C11_EmptyFileHandled ==
  \A i \in 1..Len(files) :
     files[i].size = W(0) =>
        /\ SerializeFile(files[i]) = EmptyRecord(files[i])
        /\ (FromCreate /\ epc = "done") =>
              /\ \E k \in 1..Len(extracted) :
                    /\ extracted[k].path = files[i].path
                    /\ extracted[k].content = << >>
                    /\ WrittenInPlace(k)
              /\ offset = Len(decompressed)

\* C12: failure status.  create_archive returns 0 only if no entry of the
\* scanned directory was passed over; extract_archive returns 0 only if the
\* file was a whole archive with the signature and every record that is no
\* duplicate was written to a file.
C12_StatusZeroOnlyOnSuccess ==
  /\ (cstatus = "0") => (skipped = 0)
  /\ (estatus = "0") =>
        /\ xin.digest \notin {"foreign", "short header", "short payload"}
        /\ \A k \in 1..Len(extracted) : extracted[k].file # << >>

\* C13: archive header layout.  Every archive file written consists of the
\* signature, version byte 2, the method tag, the flags byte with the
\* path-compression bit set and the encryption bit clear, the container size
\* and the compressed size as big-endian 4-byte numbers, a digest exactly
\* when the checksummed bit is set, then the compressed payload; and
\* extract_archive looks for the payload at offset 19, or 51 with a digest.
C13_HeaderLayout ==
  (disk # << >>) =>
     LET h == disk[1].hdr
     IN  /\ Len(h) = HeaderLen
         /\ Take(h, 8) = KUNDA_MAGIC
         /\ h[9] = KUNDA_VERSION
         /\ h[10] = COMP_LZMA_ULTRA
         /\ BitSet(h[11], FLAG_PATH_COMPRESSED)
         /\ ~BitSet(h[11], FLAG_ENCRYPTED)
         /\ read_uint32_be(SubSeq(h, 12, 15)) = BufLen(binary_data)
         /\ read_uint32_be(SubSeq(h, 16, 19)) = W(compressed.size)
         /\ (disk[1].digest # << >>) <=> BitSet(h[11], FLAG_CHECKSUMMED)
         /\ disk[1].digest # << >> => disk[1].digest = << SHA256(compressed) >>
         /\ disk[1].payload = compressed
         /\ ParseHeader(h).payload_at =
              (IF BitSet(h[11], FLAG_CHECKSUMMED) THEN 51 ELSE 19)

\* number of '/' positions of path at which the prefix p ends
Occurrences(p, path) ==
  Cardinality({ k \in 1..Len(path) : path[k] = SLASH /\ Take(path, k) = p })

InTable(table, p) == \E j \in 1..Len(table) : table[j].prefix = p

\* one iteration of the counting pass, on the path of files[ci]: the table
\* stays within its capacity; every entry keeps its place and its prefix, and
\* its count grows by the occurrences of its prefix in the path; an entry
\* that is new was not in the table, and counts the occurrences of its prefix
\* in the path; a table that is full gets no entry; a table that is not full
\* afterwards holds every prefix of the path
CountStepExact ==
  (cpc = "paths" /\ ci' = ci + 1) =>
     LET path == files[ci].path
         n    == Len(prefixes)
     IN  /\ Len(prefixes') <= MAX_PREFIXES
         /\ Len(prefixes') >= n
         /\ \A j \in 1..n :
               /\ prefixes'[j].prefix = prefixes[j].prefix
               /\ prefixes'[j].count =
                    prefixes[j].count + Occurrences(prefixes[j].prefix, path)
         /\ \A j \in (n + 1)..Len(prefixes') :
               /\ ~InTable(prefixes, prefixes'[j].prefix)
               /\ prefixes'[j].count = Occurrences(prefixes'[j].prefix, path)
               /\ prefixes'[j].count >= 1
               /\ \A l \in (n + 1)..Len(prefixes') :
                     prefixes'[l].prefix = prefixes'[j].prefix => l = j
         /\ (n = MAX_PREFIXES) => (Len(prefixes') = n)
         /\ (Len(prefixes') < MAX_PREFIXES) =>
               \A k \in 1..Len(path) :
                  path[k] = SLASH => InTable(prefixes', Take(path, k))

\* C14: prefix table cap and counting.  In every iteration of the counting
\* pass the table stays within its capacity of 1000 entries, the count of
\* every prefix in the table grows by exactly the occurrences of that prefix
\* in the path processed, also when the table is full, and a prefix first
\* seen when the table is full is not inserted and changes no entry: so the
\* count of an entry is the number of occurrences of its prefix so far.
C14_CountingPassExact == [][CountStepExact]_vars

\* C14 witness: the table is full, a prefix seen after it became full was
\* left out, and an entry was counted again after that
C14_Witness ==
  /\ cpc = "paths"
  /\ Len(prefixes) = MAX_PREFIXES
  /\ \E i \in (Len(CapFiles) + 1)..(ci - 2) :
        /\ \E k \in 1..Len(files[i].path) :
              /\ files[i].path[k] = SLASH
              /\ ~InTable(prefixes, Take(files[i].path, k))
        /\ \E j \in 1..Len(prefixes) :
              /\ prefixes[j].count >= 2
              /\ Occurrences(prefixes[j].prefix, files[ci - 1].path) = 1

\* the place of a step of create_archive in the order of its phases: the
\* input checks, the scan (with its statistics), the analysis of the paths,
\* the serialization, the compression, the checksum, the writing, the end
PhaseRank(pc) ==
  CASE pc = "start"     -> 0
    [] pc = "scan"      -> 1
    [] pc = "stats"     -> 2
    [] pc = "paths"     -> 3
    [] pc = "serialize" -> 4
    [] pc = "compress"  -> 5
    [] pc = "encode"    -> 6
    [] pc = "checksum"  -> 7
    [] pc = "write"     -> 8
    [] OTHER            -> 9

\* a step of create_archive stays in its phase or goes on to a later one,
\* or ends the run; the output file changes in the writing phase only, and
\* in a step that ends the run with success
PhaseStep ==
  /\ PhaseRank(cpc') >= PhaseRank(cpc)
  /\ (PhaseRank(cpc) = 9) => (cpc' = cpc /\ cstatus' = cstatus)
  /\ (disk' # disk) => (cpc = "write" /\ cpc' = "done" /\ cstatus' = "0")
  /\ (cpc' \in {"failed", "crashed"}) => (disk' = disk /\ cstatus' # "0")

\* C15: creation phase ordering.  Every run of create_archive goes through
\* scan, analysis, serialization, compression, checksum and writing in this
\* order and never goes back to an earlier phase; the output file is touched
\* in the writing phase only, so a run that ends with a failure in an
\* earlier phase leaves it as it was.
C15_PhasesInOrder == [][PhaseStep]_vars

\* C15 witness: a run that failed in the compression, after the scan, the
\* analysis and the serialization, without an output file
C15_Witness ==
  /\ cpc = "failed"
  /\ Len(files) >= 2
  /\ prefixes # << >>
  /\ binary_data # << >>
  /\ preset # << >>
  /\ compressed = NoPayload
  /\ disk = << >>

\* C16: serialization buffer bound.  Whatever the number of files, the
\* bytes written by the serialization phase fit in the buffer allocated for
\* them, of total_size + count * 1024 bytes: nothing is written behind it.
C16_OffsetWithinCapacity ==
  /\ ~heap_overflow
  /\ (binary_data # << >>) => WLeq(BufLen(binary_data), binary_capacity)

====
